---- MODULE Spec2Model ----
(***************************************************************************)
(* check_ajp: a Nagios plugin that sends one AJP13 forward request and     *)
(* decodes the container's reply.  Strings are sequences of bytes          *)
(* (0..255); "OK" is <<79, 75>>.                                           *)
(***************************************************************************)
EXTENDS Integers, Sequences, FiniteSets, TLC

VARIABLES
    args,       \* main: the command line as it was given
    opts,       \* main: the parsed command line (Options)
    req,        \* main: the AJP13ForwardRequest being built
    wire,       \* the bytes written to the connection so far
    failedWrites, \* sendRequest: which of its three writes returned an error
    tooSlow,       \* main: whether diff.Seconds() > opts.Warn
    dialed,     \* whether dial.DialContext has been called
    exitCode,   \* os.Exit status, -1 while the process runs
    exitAt,     \* which statement of main ended the process
    conn,       \* the bytes the connection delivers before it fails
    pos,        \* how many of them have been consumed
    res,        \* readResponse: the AJP13Response being accumulated
    err,        \* readResponse: the error value it returned
    pc,         \* position of the program
    prefix,     \* readResponse: tag of the packet processed last (-1: none)
    warnings,   \* number of "[WARNING] read remain unknown package" lines
    panicMsg,   \* the message of the panic that ended the process, or ""
    packets,    \* the packets the container put on the connection
    nread       \* readResponse: completed iterations of the decode loop

vars == <<args, opts, req, wire, failedWrites, tooSlow, dialed, exitCode, exitAt,
          conn, pos, res, err, pc, prefix, warnings, panicMsg, packets, nread>>

\* ------------------------------------------------------------ bounds
MaxPackets == 3
MaxCut == 4
MaxStringLen == 3     \* every string over StringBytes up to this length is tried
LongValueLen == 33000 \* the length of a long header value: one makes a payload
                      \* longer than 32767 bytes, two make one longer than 65535

\* ------------------------------------------------------------ bytes
Zeros(n) == [i \in 1..n |-> 0]

U16(n) == <<(n \div 256) % 256, n % 256>>

\* bytes.Buffer: the writes one after the other
RECURSIVE Flatten(_)
Flatten(ss) == IF ss = <<>> THEN <<>> ELSE Head(ss) \o Flatten(Tail(ss))

\* ------------------------------------------------------------ ajp_response.go
AJP13_SEND_BODY_CHUNK == 3
AJP13_SEND_HEADERS == 4
AJP13_END_RESPONSE == 5
AJP13_GET_BODY_CHUNK == 6
AJP13_CPONG_REPLY == 9

SC_RES_HEADER ==
    (<<160, 1>> :> <<99, 111, 110, 116, 101, 110, 116, 45, 116, 121, 112, 101>>) \* "content-type"
 @@ (<<160, 2>> :> <<99, 111, 110, 116, 101, 110, 116, 45, 108, 97, 110, 103, 117, 97, 103, 101>>) \* "content-language"
 @@ (<<160, 3>> :> <<99, 111, 110, 116, 101, 110, 116, 45, 108, 101, 110, 103, 116, 104>>) \* "content-length"
 @@ (<<160, 4>> :> <<100, 97, 116, 97>>) \* "data"
 @@ (<<160, 5>> :> <<108, 97, 115, 116, 45, 109, 111, 100, 105, 102, 105, 101, 100>>) \* "last-modified"
 @@ (<<160, 6>> :> <<108, 111, 99, 97, 116, 105, 111, 110>>) \* "location"
 @@ (<<160, 7>> :> <<115, 101, 116, 45, 99, 111, 111, 107, 105, 101>>) \* "set-cookie"
 @@ (<<160, 8>> :> <<115, 101, 116, 45, 99, 111, 111, 107, 105, 101, 50>>) \* "set-cookie2"
 @@ (<<160, 9>> :> <<115, 101, 114, 118, 108, 101, 116, 45, 101, 110, 103, 105, 110, 101>>) \* "servlet-engine"
 @@ (<<160, 10>> :> <<115, 116, 97, 116, 117, 115>>) \* "status"
 @@ (<<160, 11>> :> <<119, 119, 119, 45, 97, 117, 116, 104, 101, 110, 116, 105, 99, 97, 116, 101>>) \* "www-authenticate"

\* A Go map read: the zero value (the empty string) for an absent key.
ResHeaderName(code) ==
    IF code \in DOMAIN SC_RES_HEADER THEN SC_RES_HEADER[code] ELSE <<>>

\* var res AJP13Response
ZeroResponse ==
    [StatusCode |-> 0, StatusMessage |-> <<>>, Headers |-> <<>>, Body |-> <<>>]

\* io.ReadFull(r, make([]byte, n)) at offset p of stream c.  make panics on
\* a negative length; a stream that ends early fails the read, leaves the
\* rest of the buffer zero and is drained.
readByte(c, p, n) ==
    IF n < 0 THEN [st |-> "panic", data |-> <<>>, pos |-> p]
    ELSE IF p + n <= Len(c)
         THEN [st |-> "ok", data |-> SubSeq(c, p + 1, p + n), pos |-> p + n]
         ELSE [st |-> "io",
               data |-> SubSeq(c, p + 1, Len(c)) \o Zeros(n - (Len(c) - p)),
               pos |-> Len(c)]

readBool(c, p) ==
    LET r == readByte(c, p, 1)
    IN  [st |-> r.st, val |-> (r.st = "ok" /\ r.data[1] # 0), pos |-> r.pos]

readStringN(c, p, len) ==
    LET r == readByte(c, p, len + 1)
    IN  [st |-> r.st,
         val |-> IF r.st = "ok" THEN SubSeq(r.data, 1, len) ELSE r.data,
         pos |-> r.pos]

\* binary.Read(r, binary.BigEndian, &len) with len uint16
readUint16(c, p) ==
    LET r == readByte(c, p, 2)
    IN  [st |-> r.st,
         val |-> IF r.st = "ok" THEN r.data[1] * 256 + r.data[2] ELSE 0,
         pos |-> r.pos]

readUint8(c, p) ==
    LET r == readByte(c, p, 1)
    IN  [st |-> r.st, val |-> IF r.st = "ok" THEN r.data[1] ELSE 0, pos |-> r.pos]

readString(c, p) ==
    LET l == readUint16(c, p)
    IN  IF l.st # "ok" THEN [st |-> l.st, val |-> <<>>, pos |-> l.pos]
        ELSE readStringN(c, l.pos, l.val)

\* readHeaderEntry without the branch for coded names: every name is read
\* as a length-prefixed string.
readHeaderEntry_LiteralOnly(c, p) ==
    LET code == readByte(c, p, 2)
    IN  IF code.st # "ok" THEN [st |-> "io", pos |-> code.pos]
        ELSE LET name == readStringN(c, code.pos, readUint16(code.data, 0).val)
             IN  IF name.st # "ok" THEN [st |-> "io", pos |-> name.pos]
                 ELSE LET value == readString(c, name.pos)
                      IN  IF value.st # "ok" THEN [st |-> "io", pos |-> value.pos]
                          ELSE [st |-> "ok", pos |-> value.pos,
                                hdr |-> [Name |-> name.val, Value |-> value.val]]

\* One iteration of the header loop of readResponseHeaders.
readHeaderEntry(c, p) ==
    LET code == readByte(c, p, 2)
    IN  IF code.st # "ok" THEN [st |-> "io", pos |-> code.pos]
        ELSE LET name == IF code.data[1] = 160
                         THEN [st |-> "ok", val |-> ResHeaderName(code.data),
                               pos |-> code.pos]
                         ELSE readStringN(c, code.pos,
                                          readUint16(code.data, 0).val)
             IN  IF name.st # "ok" THEN [st |-> "io", pos |-> name.pos]
                 ELSE LET value == readString(c, name.pos)
                      IN  IF value.st # "ok" THEN [st |-> "io", pos |-> value.pos]
                          ELSE [st |-> "ok", pos |-> value.pos,
                                hdr |-> [Name |-> name.val, Value |-> value.val]]

\* for i := 0; i < num_headers; i++ { ... res.Headers = append(...) }
RECURSIVE readHeaderEntries(_, _, _, _)
readHeaderEntries(c, p, n, hdrs) ==
    IF n <= 0 THEN [st |-> "ok", pos |-> p, Headers |-> hdrs]
    ELSE LET e == readHeaderEntry(c, p)
         IN  IF e.st # "ok" THEN [st |-> "io", pos |-> e.pos, Headers |-> hdrs]
             ELSE readHeaderEntries(c, e.pos, n - 1, Append(hdrs, e.hdr))

\* readResponseHeaders writes through the *AJP13Response it is given, also
\* on the reads that fail.
readResponseHeaders(c, p, r) ==
    LET code == readUint16(c, p)
        r1   == [r EXCEPT !.StatusCode = code.val]
    IN  IF code.st # "ok" THEN [st |-> "io", pos |-> code.pos, res |-> r1]
        ELSE LET msg == readString(c, code.pos)
                 r2  == [r1 EXCEPT !.StatusMessage = msg.val]
             IN  IF msg.st # "ok" THEN [st |-> "io", pos |-> msg.pos, res |-> r2]
                 ELSE LET num == readUint16(c, msg.pos)
                      IN  IF num.st # "ok"
                          THEN [st |-> "io", pos |-> num.pos, res |-> r2]
                          ELSE LET hs == readHeaderEntries(c, num.pos, num.val,
                                                           r2.Headers)
                               IN  [st |-> hs.st, pos |-> hs.pos,
                                    res |-> [r2 EXCEPT !.Headers = hs.Headers]]

\* The head of one iteration of the decode loop: direction, segmentSize and
\* prefix; segmentSize has the tag byte subtracted.
readFrameHead(c, p) ==
    LET direction == readByte(c, p, 2)
    IN  IF direction.st # "ok"
        THEN [st |-> "io", pos |-> direction.pos, segmentSize |-> 0, prefix |-> -1]
        ELSE IF direction.data # <<65, 66>>
        THEN [st |-> "unknown direction", pos |-> direction.pos,
              segmentSize |-> 0, prefix |-> -1]
        ELSE LET size == readUint16(c, direction.pos)
             IN  IF size.st # "ok"
                 THEN [st |-> "io", pos |-> size.pos, segmentSize |-> 0, prefix |-> -1]
                 ELSE LET tag == readUint8(c, size.pos)
                      IN  IF tag.st # "ok"
                          THEN [st |-> "io", pos |-> tag.pos, segmentSize |-> 0,
                                prefix |-> -1]
                          ELSE [st |-> "ok", pos |-> tag.pos,
                                segmentSize |-> size.val - 1, prefix |-> tag.val]

\* readBodyChunk that appends the padding to the body as well.
readBodyChunk_KeepsPadding(c, p, segmentSize, body) ==
    LET chunkLength == readUint16(c, p)
    IN  IF chunkLength.st # "ok"
        THEN [st |-> "io", pos |-> chunkLength.pos, Body |-> body]
        ELSE LET chunk == readByte(c, chunkLength.pos, chunkLength.val)
                 rest  == segmentSize - 2
             IN  IF chunk.st # "ok"
                 THEN [st |-> "io", pos |-> chunk.pos, Body |-> body]
                 ELSE IF rest # chunkLength.val
                 THEN LET pad == readByte(c, chunk.pos, rest - chunkLength.val)
                      IN  [st |-> pad.st, pos |-> pad.pos,
                           Body |-> body \o chunk.data \o pad.data]
                 ELSE [st |-> "ok", pos |-> chunk.pos, Body |-> body \o chunk.data]

\* readBodyChunk that drops one byte less than the surplus, as the
\* end-response case does.
readBodyChunk_PadOffByOne(c, p, segmentSize, body) ==
    LET chunkLength == readUint16(c, p)
    IN  IF chunkLength.st # "ok"
        THEN [st |-> "io", pos |-> chunkLength.pos, Body |-> body]
        ELSE LET chunk == readByte(c, chunkLength.pos, chunkLength.val)
                 rest  == segmentSize - 2
             IN  IF chunk.st # "ok"
                 THEN [st |-> "io", pos |-> chunk.pos, Body |-> body]
                 ELSE IF rest # chunkLength.val
                 THEN LET pad == readByte(c, chunk.pos, rest - chunkLength.val - 1)
                      IN  [st |-> pad.st, pos |-> pad.pos,
                           Body |-> body \o chunk.data]
                 ELSE [st |-> "ok", pos |-> chunk.pos, Body |-> body \o chunk.data]

\* case AJP13_SEND_BODY_CHUNK, from the byte after the tag
readBodyChunk(c, p, segmentSize, body) ==
    LET chunkLength == readUint16(c, p)
    IN  IF chunkLength.st # "ok"
        THEN [st |-> "io", pos |-> chunkLength.pos, Body |-> body]
        ELSE LET chunk == readByte(c, chunkLength.pos, chunkLength.val)
                 rest  == segmentSize - 2
             IN  IF chunk.st # "ok"
                 THEN [st |-> "io", pos |-> chunk.pos, Body |-> body]
                 ELSE IF rest # chunkLength.val
                 THEN LET pad == readByte(c, chunk.pos, rest - chunkLength.val)
                      IN  [st |-> pad.st, pos |-> pad.pos,
                           Body |-> body \o chunk.data]
                 ELSE [st |-> "ok", pos |-> chunk.pos, Body |-> body \o chunk.data]

\* case AJP13_END_RESPONSE, from the byte after the tag
readEndResponse(c, p, segmentSize) ==
    LET reuse == readBool(c, p)
        rest  == segmentSize - 1
    IN  IF reuse.st # "ok" THEN [st |-> "io", pos |-> reuse.pos, warned |-> 0]
        ELSE IF rest # 0
        THEN LET remain == readByte(c, reuse.pos, rest - 1)
             IN  [st |-> remain.st, pos |-> remain.pos, warned |-> 1]
        ELSE [st |-> "ok", pos |-> reuse.pos, warned |-> 0]

\* ------------------------------------------------------------ strings
\* strings.ToLower and strings.ToUpper on ASCII bytes
ToLower(s) == [i \in 1..Len(s) |-> IF s[i] \in 65..90 THEN s[i] + 32 ELSE s[i]]

ToUpper(s) == [i \in 1..Len(s) |-> IF s[i] \in 97..122 THEN s[i] - 32 ELSE s[i]]

\* strings.Index(s, sep) for a one-byte separator, counted from 1; 0 if absent
Index(s, sep) ==
    IF \E i \in 1..Len(s) : s[i] = sep
    THEN CHOOSE i \in 1..Len(s) : s[i] = sep /\ \A j \in 1..(i - 1) : s[j] # sep
    ELSE 0

\* strings.SplitN(s, sep, 2)
SplitN2(s, sep) ==
    LET i == Index(s, sep)
    IN  IF i = 0 THEN <<s>> ELSE <<SubSeq(s, 1, i - 1), SubSeq(s, i + 1, Len(s))>>

\* strings.Split(s, sep)
RECURSIVE Split(_, _)
Split(s, sep) ==
    LET i == Index(s, sep)
    IN  IF i = 0 THEN <<s>>
        ELSE <<SubSeq(s, 1, i - 1)>> \o Split(SubSeq(s, i + 1, Len(s)), sep)

\* strings.Trim(s, " ")
RECURSIVE Trim(_)
Trim(s) ==
    IF s # <<>> /\ Head(s) = 32 THEN Trim(Tail(s))
    ELSE IF s # <<>> /\ s[Len(s)] = 32 THEN Trim(SubSeq(s, 1, Len(s) - 1))
    ELSE s

\* strconv.Itoa for n >= 0
RECURSIVE Itoa(_)
Itoa(n) == IF n < 10 THEN <<48 + n>> ELSE Itoa(n \div 10) \o <<48 + (n % 10)>>

\* AJP13Response.header: the values of the headers of r whose name is name,
\* letter case ignored, in the order of r.Headers
RECURSIVE headerValues(_, _)
headerValues(hdrs, name) ==
    IF hdrs = <<>> THEN <<>>
    ELSE (IF ToLower(Head(hdrs).Name) = ToLower(name) THEN <<Head(hdrs).Value>> ELSE <<>>)
         \o headerValues(Tail(hdrs), name)

header(r, name) == headerValues(r.Headers, name)

\* ------------------------------------------------------------ ajp_request.go
SC_REQ_HEADER ==
    (<<97, 99, 99, 101, 112, 116>> :> <<160, 1>>) \* "accept"
 @@ (<<97, 99, 99, 101, 112, 116, 45, 99, 104, 97, 114, 115, 101, 116>> :> <<160, 2>>) \* "accept-charset"
 @@ (<<97, 99, 99, 101, 112, 116, 45, 101, 110, 99, 111, 100, 105, 110, 103>> :> <<160, 3>>) \* "accept-encoding"
 @@ (<<97, 99, 99, 101, 112, 116, 45, 108, 97, 110, 103, 117, 97, 103, 101>> :> <<160, 4>>) \* "accept-language"
 @@ (<<97, 117, 116, 104, 111, 114, 105, 122, 97, 116, 105, 111, 110>> :> <<160, 5>>) \* "authorization"
 @@ (<<99, 111, 110, 110, 101, 99, 116, 105, 111, 110>> :> <<160, 6>>) \* "connection"
 @@ (<<99, 111, 110, 116, 101, 110, 116, 45, 116, 121, 112, 101>> :> <<160, 7>>) \* "content-type"
 @@ (<<99, 111, 110, 116, 101, 110, 116, 45, 108, 101, 110, 103, 116, 104>> :> <<160, 8>>) \* "content-length"
 @@ (<<99, 111, 111, 107, 105, 101>> :> <<160, 9>>) \* "cookie"
 @@ (<<99, 111, 111, 107, 105, 101, 50>> :> <<160, 10>>) \* "cookie2"
 @@ (<<104, 111, 115, 116>> :> <<160, 11>>) \* "host"
 @@ (<<112, 114, 97, 103, 109, 97>> :> <<160, 12>>) \* "pragma"
 @@ (<<114, 101, 102, 101, 114, 101, 114>> :> <<160, 13>>) \* "referer"
 @@ (<<117, 115, 101, 114, 45, 97, 103, 101, 110, 116>> :> <<160, 14>>) \* "user-agent"

SC_REQ_ATTR ==
    (<<99, 111, 110, 116, 101, 120, 116>> :> <<1>>) \* "context"
 @@ (<<115, 101, 114, 118, 108, 101, 116, 95, 112, 97, 116, 104>> :> <<2>>) \* "servlet_path"
 @@ (<<114, 101, 109, 111, 116, 101, 95, 117, 115, 101, 114>> :> <<3>>) \* "remote_user"
 @@ (<<97, 117, 116, 104, 95, 116, 121, 112, 101>> :> <<4>>) \* "auth_type"
 @@ (<<113, 117, 101, 114, 121, 95, 115, 116, 114, 105, 110, 103>> :> <<5>>) \* "query_string"
 @@ (<<114, 111, 117, 116, 101>> :> <<6>>) \* "route"
 @@ (<<115, 115, 108, 95, 99, 101, 114, 116>> :> <<7>>) \* "ssl_cert"
 @@ (<<115, 115, 108, 95, 99, 105, 112, 104, 101, 114>> :> <<8>>) \* "ssl_cipher"
 @@ (<<115, 115, 108, 95, 115, 101, 115, 115, 105, 111, 110>> :> <<9>>) \* "ssl_session"
 @@ (<<114, 101, 113, 95, 97, 116, 116, 114, 105, 98, 117, 116, 101>> :> <<10>>) \* "req_attribute"
 @@ (<<115, 115, 108, 95, 107, 101, 121, 95, 115, 105, 122, 101>> :> <<11>>) \* "ssl_key_size"
 @@ (<<115, 101, 99, 114, 101, 116>> :> <<12>>) \* "secret"
 @@ (<<115, 116, 111, 114, 101, 100, 95, 109, 101, 116, 104, 111, 100>> :> <<13>>) \* "stored_method"

METHOD ==
    (<<71, 69, 84>> :> 2)   \* "GET"
 @@ (<<72, 69, 65, 68>> :> 3)   \* "HEAD"

JK_AJP13_FORWARD_REQUEST == 2

\* Go map reads: nil, here <<>>, and 0 for an absent key.
ReqHeaderCode(name) ==
    IF name \in DOMAIN SC_REQ_HEADER THEN SC_REQ_HEADER[name] ELSE <<>>

ReqAttrCode(name) ==
    IF name \in DOMAIN SC_REQ_ATTR THEN SC_REQ_ATTR[name] ELSE <<>>

MethodCode(m) == IF m \in DOMAIN METHOD THEN METHOD[m] ELSE 0

newAJP13ForwardRequest(o) ==
    [PrefixCode |-> JK_AJP13_FORWARD_REQUEST,
     Method     |-> ToUpper(o.Method),
     Protocol   |-> o.Protocol,
     IsSsl      |-> o.Ssl,
     Uri        |-> o.Uri,
     ServerName |-> o.Ipaddr,
     ServerPort |-> o.Port,
     RemoteAddr |-> o.RemoteAddr,
     RemoteHost |-> o.RemoteHost,
     Headers    |-> <<>>,
     Attributes |-> <<>>]

\* struc.Pack of encodeInt16: the low 16 bits, big-endian
appendUint16(i) == <<(i \div 256) % 256, i % 256>>

\* struc.Pack of encodeInt8
appendByte(i) == <<i % 256>>

\* struc.Pack of encodeString: uint16 size, the bytes, one pad byte
\* A string written without the pad byte behind it.
appendString_NoTerminator(s) == appendUint16(Len(s)) \o s

appendString(s) == appendUint16(Len(s)) \o s \o <<0>>

\* struc.Pack of encodeBool
appendBool(v) == IF v THEN <<1>> ELSE <<0>>

\* validate that accepts every method.
validate_AcceptsAll(r) == FALSE

\* validate: TRUE when it returns an error
validate(r) == MethodCode(r.Method) = 0

\* appendHeaderEntry that looks the name up as it was given.
appendHeaderEntry_CaseSensitive(hdr) ==
    (IF ReqHeaderCode(hdr.Name) # <<>>
     THEN ReqHeaderCode(hdr.Name)
     ELSE appendString(ToLower(hdr.Name)))
    \o appendString(hdr.Value)

\* the body of the header loop of sendRequest
appendHeaderEntry(hdr) ==
    (IF ReqHeaderCode(ToLower(hdr.Name)) # <<>>
     THEN ReqHeaderCode(ToLower(hdr.Name))
     ELSE appendString(ToLower(hdr.Name)))
    \o appendString(hdr.Value)

\* the body of the attribute loop of sendRequest
appendAttributeEntry(attr) == attr.Code \o appendString(attr.Value)

\* A payload in the field order of the struct AJP13ForwardRequest, in which
\* Uri comes before Protocol.
requestPayload_UriBeforeProtocol(r) ==
    appendByte(r.PrefixCode) \o appendByte(MethodCode(r.Method))
    \o appendString(r.Uri) \o appendString(r.Protocol)
    \o appendString(r.RemoteAddr) \o appendString(r.RemoteHost)
    \o appendString(r.ServerName) \o appendUint16(r.ServerPort)
    \o appendBool(r.IsSsl) \o appendUint16(Len(r.Headers))
    \o Flatten([i \in 1..Len(r.Headers) |-> appendHeaderEntry(r.Headers[i])])
    \o Flatten([i \in 1..Len(r.Attributes) |-> appendAttributeEntry(r.Attributes[i])])
    \o <<255>>

\* buf at line 204 of sendRequest
requestPayload(r) ==
    appendByte(r.PrefixCode)
    \o appendByte(MethodCode(r.Method))
    \o appendString(r.Protocol)
    \o appendString(r.Uri)
    \o appendString(r.RemoteAddr)
    \o appendString(r.RemoteHost)
    \o appendString(r.ServerName)
    \o appendUint16(r.ServerPort)
    \o appendBool(r.IsSsl)
    \o appendUint16(Len(r.Headers))
    \o Flatten([i \in 1..Len(r.Headers) |-> appendHeaderEntry(r.Headers[i])])
    \o Flatten([i \in 1..Len(r.Attributes) |-> appendAttributeEntry(r.Attributes[i])])
    \o <<255>>

\* sendRequest on a writer whose writes numbered in failed return an error:
\* the bytes that reach the connection and whether an error is returned.
sendRequest(r, failed) ==
    LET buf   == requestPayload(r)
        magic == IF 1 \in failed THEN <<>> ELSE <<18, 52>>
    IN  IF 2 \in failed THEN [err |-> TRUE, written |-> magic]
        ELSE [err |-> 3 \in failed,
              written |-> magic \o appendUint16(Len(buf))
                          \o (IF 3 \in failed THEN <<>> ELSE buf)]

\* ------------------------------------------------------------ check_ajp.go
NagiosOk == 0
NagiosWarning == 1
NagiosCritical == 2
NagiosUnknown == 3

\* const Version = "0.1.0"; fmt.Sprintf("check_ajp (%s)", Version)
DefaultUserAgent == <<99, 104, 101, 99, 107, 95, 97, 106, 112, 32, 40, 48, 46, 49, 46, 48, 41>>

\* parts[1] of a string without the separator is an index out of range
parseHeaderOption(s) ==
    LET parts == SplitN2(s, 58)
    IN  IF Len(parts) < 2 THEN [st |-> "panic"]
        ELSE [st |-> "ok", hdr |-> [Name |-> Trim(parts[1]), Value |-> Trim(parts[2])]]

\* An attribute option whose unknown name is passed on with the nil code the
\* table lookup gave.
parseAttributeOption_PassThrough(s) ==
    LET parts == SplitN2(s, 61)
    IN  IF Len(parts) < 2 THEN [st |-> "panic"]
        ELSE [st |-> "ok",
              attr |-> [Code |-> ReqAttrCode(ToLower(parts[1])), Value |-> parts[2]]]

parseAttributeOption(s) ==
    LET parts == SplitN2(s, 61)
    IN  IF ReqAttrCode(ToLower(parts[1])) = <<>> THEN [st |-> "exit"]
        ELSE IF Len(parts) < 2 THEN [st |-> "panic"]
        ELSE [st |-> "ok",
              attr |-> [Code |-> ReqAttrCode(ToLower(parts[1])), Value |-> parts[2]]]

\* lines 90-102 of main: the Host and User-Agent headers and the query string
prepareOptions(o) ==
    LET o1 == IF o.Vhost # <<>>
              THEN [o EXCEPT !.Headers = Append(@, <<72, 111, 115, 116, 58, 32>> \o o.Vhost)]
              ELSE o
        o2 == IF o1.UserAgent # <<>>
              THEN [o1 EXCEPT !.UserAgent = DefaultUserAgent]
              ELSE o1
        o3 == [o2 EXCEPT !.Headers =
                  Append(@, <<85, 115, 101, 114, 45, 65, 103, 101, 110, 116, 58, 32>> \o o2.UserAgent)]
        splited == SplitN2(o3.Uri, 63)
    IN  IF Index(o3.Uri, 63) # 0
        THEN [o3 EXCEPT !.Uri = splited[1],
                        !.Attributes =
                            Append(@, <<113, 117, 101, 114, 121, 95, 115, 116, 114, 105, 110, 103, 61>> \o splited[2])]
        ELSE o3

\* the loops of lines 106-112: the first option that ends the program
\* decides, headers before attributes
RECURSIVE parseHeaders(_, _)
parseHeaders(ss, acc) ==
    IF ss = <<>> THEN [st |-> "ok", list |-> acc]
    ELSE LET h == parseHeaderOption(Head(ss))
         IN  IF h.st # "ok" THEN [st |-> h.st, list |-> acc]
             ELSE parseHeaders(Tail(ss), Append(acc, h.hdr))

RECURSIVE parseAttributes(_, _)
parseAttributes(ss, acc) ==
    IF ss = <<>> THEN [st |-> "ok", list |-> acc]
    ELSE LET a == parseAttributeOption(Head(ss))
         IN  IF a.st # "ok" THEN [st |-> a.st, list |-> acc]
             ELSE parseAttributes(Tail(ss), Append(acc, a.attr))

\* The status by the thresholds alone, whatever --expect says.
statusOf_IgnoresExpect(code, expect) ==
    IF code >= 500 THEN NagiosCritical
    ELSE IF code >= 400 THEN NagiosWarning
    ELSE NagiosOk

\* lines 187-207: the status the response's status code alone gives
statusOf(code, expect) ==
    IF expect = <<>>
    THEN IF code >= 500 THEN NagiosCritical
         ELSE IF code >= 400 THEN NagiosWarning
         ELSE NagiosOk
    ELSE IF \E i \in 1..Len(Split(expect, 44)) : Split(expect, 44)[i] = Itoa(code)
         THEN NagiosOk
         ELSE NagiosWarning

\* lines 209-240: the JSON check and the warning threshold
nagiosStatus(code, o, jsonEqual, slow) ==
    LET s1 == statusOf(code, o.Expect)
        s2 == IF o.JsonKey # <<>> /\ o.JsonValue # <<>> /\ ~jsonEqual
              THEN NagiosCritical ELSE s1
    IN  IF s2 = NagiosOk /\ slow THEN NagiosWarning ELSE s2

\* ------------------------------------------------------------ the reply stream
AjpString(s) == U16(Len(s)) \o s \o <<0>>

Packet(kind, magic, declared, payload, data, status, msg, hdrs) ==
    [kind |-> kind, magic |-> magic, declared |-> declared, payload |-> payload,
     data |-> data, pad |-> 0,
     status |-> status, msg |-> msg, hdrs |-> hdrs]

\* 'A' 'B', uint16 length, tag 3, uint16 chunkLength, the chunk, padding
BodyChunkPacket(data, pad) ==
    [Packet("chunk", <<65, 66>>, 3 + Len(data) + pad,
            <<3>> \o U16(Len(data)) \o data \o Zeros(pad), data, 0, <<>>, <<>>)
        EXCEPT !.pad = pad]

\* a body chunk whose frame declares fewer bytes than its chunk needs
ShortBodyChunkPacket(data, declared) ==
    Packet("shortchunk", <<65, 66>>, declared,
           <<3>> \o U16(Len(data)) \o data, data, 0, <<>>, <<>>)

HeaderEntryBytes(h) ==
    (IF h.code # <<>> THEN h.code ELSE AjpString(h.name)) \o AjpString(h.value)

SendHeadersPacket(status, msg, hdrs) ==
    LET payload == <<4>> \o U16(status) \o AjpString(msg) \o U16(Len(hdrs))
                   \o Flatten([i \in 1..Len(hdrs) |-> HeaderEntryBytes(hdrs[i])])
    IN  Packet("headers", <<65, 66>>, Len(payload), payload, <<>>, status, msg, hdrs)

\* a send-headers frame that declares, and carries, extra zero bytes behind
\* its header entries
LongSendHeadersPacket(status, msg, hdrs, extra) ==
    LET p == SendHeadersPacket(status, msg, hdrs)
    IN  [p EXCEPT !.kind = "longheaders",
                  !.declared = p.declared + extra,
                  !.payload = p.payload \o Zeros(extra)]

\* tag 5, the reuse flag, and declared - 2 unexpected bytes
EndResponsePacket(reuse, declared) ==
    Packet("end", <<65, 66>>, declared,
           IF declared >= 2 THEN <<5, reuse>> \o Zeros(declared - 2) ELSE <<5>>,
           <<>>, 0, <<>>, <<>>)

\* any other frame: its tag and declared - 1 further payload bytes
TaggedPacket(kind, magic, tag, declared) ==
    Packet(kind, magic, declared,
           <<tag>> \o [i \in 1..(declared - 1) |-> 1], <<>>, 0, <<>>, <<>>)

Wire(p) == p.magic \o U16(p.declared) \o p.payload

Stream(ps) == Flatten([i \in 1..Len(ps) |-> Wire(ps[i])])

CodedHeader(code, value) == [code |-> code, name |-> <<>>, value |-> value]
NamedHeader(name, value) == [code |-> <<>>, name |-> name, value |-> value]

ChunkHe == BodyChunkPacket(<<72, 101>>, 0)                 \* "He"
ChunkLlo == BodyChunkPacket(<<108, 108, 111>>, 2)          \* "llo" and two padding bytes
ChunkOK == BodyChunkPacket(<<79, 75>>, 1)                  \* "OK" and one padding byte
Headers200 ==
    SendHeadersPacket(200, <<79, 75>>,                     \* 200 "OK", content-type: text/plain
        <<CodedHeader(<<160, 1>>, <<116, 101, 120, 116, 47, 112, 108, 97, 105, 110>>)>>)
Headers404 ==
    SendHeadersPacket(404, <<78, 70>>,                     \* 404 "NF", x-a twice
        <<NamedHeader(<<120, 45, 97>>, <<49>>),
          CodedHeader(<<160, 4>>, <<>>),
          NamedHeader(<<120, 45, 97>>, <<50>>),
          CodedHeader(<<160, 12>>, <<51>>)>>)
HeadersDate ==
    SendHeadersPacket(200, <<79, 75>>,                     \* 200 "OK", Date: now
        <<CodedHeader(<<160, 4>>, <<110, 111, 119>>)>>)
EndResponse == EndResponsePacket(1, 2)
CPong == TaggedPacket("other", <<65, 66>>, 9, 1)

\* Packets after which the decode loop may go on.
ContinuingPool ==
    { ChunkHe, ChunkLlo, ChunkOK, Headers200, Headers404, CPong,
      TaggedPacket("other", <<65, 66>>, 9, 3) }

PacketPool ==
    ContinuingPool \cup
    { ShortBodyChunkPacket(<<75>>, 3),
      LongSendHeadersPacket(200, <<79, 75>>, <<>>, 2),
      HeadersDate,
      EndResponse,
      EndResponsePacket(0, 3),
      EndResponsePacket(1, 1),
      TaggedPacket("getbody", <<65, 66>>, 6, 3),
      TaggedPacket("getbody", <<65, 66>>, 6, 1),
      TaggedPacket("badmagic", <<18, 52>>, 5, 2) }

\* What the container may still send after the packet that ends the decode.
TrailPool == { <<>>, <<EndResponse>> }

RECURSIVE PacketSeqs(_)
PacketSeqs(n) ==
    IF n = 0 THEN {<<>>}
    ELSE LET shorter == PacketSeqs(n - 1)
         IN  shorter \cup {Append(ps, p) : ps \in {s \in shorter : Len(s) = n - 1},
                                           p \in ContinuingPool}

\* Up to MaxPackets packets of which only the last may end the decode, and
\* what follows it on the connection.
Replies ==
    {<<>>} \cup
    { Append(ps, last) \o trail : ps \in PacketSeqs(MaxPackets - 1),
                                  last \in PacketPool, trail \in TrailPool }

\* ------------------------------------------------------------ states
\* The defaults of the Options struct; Version 0.1.0 of the program.
DefaultOptions ==
    [UserAgent  |-> <<>>,
     Attributes |-> <<>>,
     Expect     |-> <<>>,
     Vhost      |-> <<>>,
     Ipaddr     |-> <<49, 50, 55, 46, 48, 46, 48, 46, 49>>,   \* "127.0.0.1"
     Headers    |-> <<>>,
     Method     |-> <<71, 69, 84>>,                           \* "GET"
     Protocol   |-> <<72, 84, 84, 80, 47, 49, 46, 48>>,       \* "HTTP/1.0"
     Port       |-> 8009,
     Ssl        |-> FALSE,
     Uri        |-> <<47>>,                                   \* "/"
     Version    |-> FALSE,
     JsonKey    |-> <<>>,
     JsonValue  |-> <<>>,
     RemoteAddr |-> <<>>,
     RemoteHost |-> <<>>]

Methods ==
    { <<71, 69, 84>>,          \* "GET"
      <<103, 101, 116>>,       \* "get"
      <<72, 101, 65, 100>>,    \* "HeAd"
      <<80, 79, 83, 84>> }     \* "POST"

HeaderOptions ==
    { <<>>,
      << <<67, 111, 110, 116, 101, 110, 116, 45, 84, 121, 112, 101, 58, 32, 97>>,  \* "Content-Type: a"
         <<88, 45, 70, 111, 111, 58, 98>> >>,                                      \* "X-Foo:b"
      << <<110, 111, 99, 111, 108, 111, 110>> >> }                                 \* "nocolon"

AttributeOptions ==
    { <<>>,
      << <<114, 111, 117, 116, 101, 61, 119, 49>> >>,              \* "route=w1"
      << <<106, 118, 109, 82, 111, 117, 116, 101, 61, 120>> >>,    \* "jvmRoute=x"
      << <<115, 101, 99, 114, 101, 116>> >>,                       \* "secret"
      << <<82, 111, 117, 116, 101, 61, 119, 49>>,                  \* "Route=w1",
         <<106, 118, 109, 82, 111, 117, 116, 101, 61, 120>> >> }   \* "jvmRoute=x"

\* "X-Long: aaa...", a header option with a value of LongValueLen bytes
LongHeader == <<88, 45, 76, 111, 110, 103, 58, 32>> \o [i \in 1..LongValueLen |-> 97]

\* the command lines: those that vary the request, and a few that vary the
\* rest of main
OptionSet ==
    { [DefaultOptions EXCEPT !.Method = m, !.Headers = h, !.Attributes = a,
                             !.Vhost = v, !.UserAgent = ua, !.Uri = u] :
        m \in Methods, h \in HeaderOptions, a \in AttributeOptions,
        v \in {<<>>, <<104>>},                       \* "h"
        ua \in {<<>>, <<117, 97>>},                  \* "ua"
        u \in {<<47>>, <<47, 63, 113, 61, 49>>} }    \* "/", "/?q=1"
    \cup
    { [DefaultOptions EXCEPT !.Version = TRUE],
      [DefaultOptions EXCEPT !.Ssl = TRUE, !.Port = 8443,
                             !.RemoteAddr = <<49, 48, 46, 48, 46, 48, 46, 49>>,  \* "10.0.0.1"
                             !.RemoteHost = <<114>>],                            \* "r"
      [DefaultOptions EXCEPT !.Expect = <<50, 48, 48, 44, 53, 48, 51>>],         \* "200,503"
      [DefaultOptions EXCEPT !.Expect = <<52, 48, 52>>],                         \* "404"
      [DefaultOptions EXCEPT !.JsonKey = <<107>>, !.JsonValue = <<118>>] }       \* "k", "v"

\* conn.LocalAddr() up to the colon
LocalAddr == <<49, 50, 55, 46, 48, 46, 48, 46, 49>>

Headers503 == SendHeadersPacket(503, <<>>, <<>>)

\* the replies main is run against
MainReplies ==
    { <<Headers200, ChunkOK, EndResponse>>,
      <<Headers404, EndResponse>>,
      <<Headers503, EndResponsePacket(0, 3)>>,
      <<CPong, TaggedPacket("getbody", <<65, 66>>, 6, 1)>>,
      <<TaggedPacket("badmagic", <<18, 52>>, 5, 2)>>,
      <<>> }

NoOptions == DefaultOptions
NoRequest == newAJP13ForwardRequest(DefaultOptions)

Init ==
    /\ opts \in OptionSet
    /\ args = opts
    /\ failedWrites = {}
    /\ tooSlow = FALSE
    /\ req = NoRequest
    /\ wire = <<>>
    /\ dialed = FALSE
    /\ exitCode = -1
    /\ exitAt = ""
    /\ conn = <<>>
    /\ packets = <<>>
    /\ pos = 0
    /\ res = ZeroResponse
    /\ err = "nil"
    /\ pc = "main"
    /\ prefix = -1
    /\ warnings = 0
    /\ panicMsg = ""
    /\ nread = 0

\* readResponse(conn) on a connection that delivers the packets ps and then
\* fails, cut bytes before their end.
InitDecode ==
    /\ packets \in Replies
    /\ \E cut \in 0..MaxCut :
          /\ cut <= Len(Stream(packets))
          /\ conn = SubSeq(Stream(packets), 1, Len(Stream(packets)) - cut)
    /\ pos = 0
    /\ res = ZeroResponse
    /\ err = "nil"
    /\ pc = "readResponse"
    /\ prefix = -1
    /\ warnings = 0
    /\ panicMsg = ""
    /\ nread = 0
    /\ opts = NoOptions
    /\ args = NoOptions
    /\ failedWrites = {}
    /\ tooSlow = FALSE
    /\ req = NoRequest
    /\ wire = <<>>
    /\ dialed = TRUE
    /\ exitCode = -1
    /\ exitAt = ""

head == readFrameHead(conn, pos)

UnchangedMain ==
    UNCHANGED <<args, opts, req, wire, failedWrites, tooSlow, dialed, exitCode, exitAt,
                conn, packets>>

\* ReadFrameError returning the function's outer err, which is nil.
ReadFrameError_OuterErr ==
    /\ pc = "readResponse"
    /\ head.st # "ok"
    /\ pc' = "returned"
    /\ pos' = head.pos
    /\ UNCHANGED <<res, err, prefix, warnings, panicMsg, nread>>
    /\ UnchangedMain

\* lines 135-150: a failed read of the frame head, or a wrong direction
ReadFrameError ==
    /\ pc = "readResponse"
    /\ head.st # "ok"
    /\ pc' = "returned"
    /\ err' = head.st
    /\ pos' = head.pos
    /\ UNCHANGED <<res, prefix, warnings, panicMsg, nread>>
    /\ UnchangedMain

\* lines 154-171
ReadBodyChunk ==
    /\ pc = "readResponse"
    /\ head.st = "ok"
    /\ head.prefix = AJP13_SEND_BODY_CHUNK
    /\ LET r == readBodyChunk(conn, head.pos, head.segmentSize, res.Body)
       IN  /\ pos' = r.pos
           /\ res' = [res EXCEPT !.Body = r.Body]
           /\ pc' = CASE r.st = "ok" -> "readResponse"
                      [] r.st = "io" -> "returned"
                      [] OTHER -> "panic"
           /\ err' = IF r.st = "io" THEN "io" ELSE err
           /\ panicMsg' = IF r.st = "panic" THEN "makeslice: len out of range"
                          ELSE panicMsg
           /\ nread' = IF r.st = "ok" THEN nread + 1 ELSE nread
    /\ prefix' = head.prefix
    /\ UNCHANGED warnings
    /\ UnchangedMain

\* lines 172-177
ReadSendHeaders ==
    /\ pc = "readResponse"
    /\ head.st = "ok"
    /\ head.prefix = AJP13_SEND_HEADERS
    /\ LET r == readResponseHeaders(conn, head.pos, res)
       IN  /\ pos' = r.pos
           /\ res' = r.res
           /\ pc' = IF r.st = "ok" THEN "readResponse" ELSE "returned"
           /\ err' = IF r.st = "ok" THEN err ELSE "io"
           /\ nread' = IF r.st = "ok" THEN nread + 1 ELSE nread
    /\ prefix' = head.prefix
    /\ UNCHANGED <<warnings, panicMsg>>
    /\ UnchangedMain

\* lines 178-194, and the return of line 199 after break READ_RESPONSE
ReadEndResponse ==
    /\ pc = "readResponse"
    /\ head.st = "ok"
    /\ head.prefix = AJP13_END_RESPONSE
    /\ LET r == readEndResponse(conn, head.pos, head.segmentSize)
       IN  /\ pos' = r.pos
           /\ warnings' = warnings + r.warned
           /\ pc' = IF r.st = "panic" THEN "panic" ELSE "returned"
           /\ err' = IF r.st = "io" THEN "io" ELSE "nil"
           /\ panicMsg' = IF r.st = "panic" THEN "makeslice: len out of range"
                          ELSE panicMsg
           /\ nread' = IF r.st = "ok" THEN nread + 1 ELSE nread
    /\ prefix' = head.prefix
    /\ UNCHANGED res
    /\ UnchangedMain

\* ReadGetBodyChunk that treats the packet like any unknown one.
ReadGetBodyChunk_Ignored ==
    /\ pc = "readResponse"
    /\ head.st = "ok"
    /\ head.prefix = AJP13_GET_BODY_CHUNK
    /\ pc' = "readResponse"
    /\ pos' = head.pos
    /\ prefix' = head.prefix
    /\ nread' = nread + 1
    /\ UNCHANGED <<res, err, warnings, panicMsg>>
    /\ UnchangedMain

\* lines 195-196
ReadGetBodyChunk ==
    /\ pc = "readResponse"
    /\ head.st = "ok"
    /\ head.prefix = AJP13_GET_BODY_CHUNK
    /\ pc' = "panic"
    /\ panicMsg' = "GET_BODY_CHUNK response is not yet supported"
    /\ pos' = head.pos
    /\ prefix' = head.prefix
    /\ UNCHANGED <<res, err, warnings, nread>>
    /\ UnchangedMain

\* a tag the switch has no case for: the loop starts its next iteration
ReadOtherPacket ==
    /\ pc = "readResponse"
    /\ head.st = "ok"
    /\ head.prefix \notin {AJP13_SEND_BODY_CHUNK, AJP13_SEND_HEADERS,
                           AJP13_END_RESPONSE, AJP13_GET_BODY_CHUNK}
    /\ pc' = "readResponse"
    /\ pos' = head.pos
    /\ prefix' = head.prefix
    /\ nread' = nread + 1
    /\ UNCHANGED <<res, err, warnings, panicMsg>>
    /\ UnchangedMain

readResponse ==
    \/ ReadFrameError
    \/ ReadBodyChunk
    \/ ReadSendHeaders
    \/ ReadEndResponse
    \/ ReadGetBodyChunk
    \/ ReadOtherPacket

NextDecode == readResponse

SpecDecode == InitDecode /\ [][NextDecode]_vars


\* ------------------------------------------------------------ main
UnchangedDecode ==
    UNCHANGED <<args, conn, packets, pos, res, err, prefix, warnings, nread>>

Exit(code, at) ==
    /\ pc' = "exit"
    /\ exitCode' = code
    /\ exitAt' = at

\* lines 86-102
PrepareOptions ==
    /\ pc = "main"
    /\ IF opts.Version
       THEN Exit(NagiosUnknown, "version") /\ UNCHANGED opts
       ELSE /\ opts' = prepareOptions(opts)
            /\ pc' = "build"
            /\ UNCHANGED <<exitCode, exitAt>>
    /\ UNCHANGED <<req, wire, failedWrites, tooSlow, dialed, panicMsg>>
    /\ UnchangedDecode

\* lines 104-112
BuildRequest ==
    /\ pc = "build"
    /\ LET hs == parseHeaders(opts.Headers, <<>>)
           as == parseAttributes(opts.Attributes, <<>>)
       IN  /\ req' = [newAJP13ForwardRequest(opts) EXCEPT
                         !.Headers = hs.list,
                         !.Attributes = IF hs.st = "ok" THEN as.list ELSE <<>>]
           /\ IF hs.st = "panic" \/ (hs.st = "ok" /\ as.st = "panic")
              THEN /\ pc' = "panic"
                   /\ panicMsg' = "index out of range"
                   /\ UNCHANGED <<exitCode, exitAt>>
              ELSE IF as.st = "exit"
              THEN Exit(NagiosUnknown, "attribute") /\ UNCHANGED panicMsg
              ELSE /\ pc' = "validate"
                   /\ UNCHANGED <<exitCode, exitAt, panicMsg>>
    /\ UNCHANGED <<opts, wire, failedWrites, tooSlow, dialed>>
    /\ UnchangedDecode

\* lines 114-118
Validate ==
    /\ pc = "validate"
    /\ IF validate(req)
       THEN Exit(NagiosUnknown, "validate")
       ELSE pc' = "dial" /\ UNCHANGED <<exitCode, exitAt>>
    /\ UNCHANGED <<opts, req, wire, failedWrites, tooSlow, dialed, panicMsg>>
    /\ UnchangedDecode

\* lines 120-151: the connection is refused, or it is made and will deliver
\* one of the replies
Dial ==
    /\ pc = "dial"
    /\ dialed' = TRUE
    /\ \/ /\ Exit(NagiosCritical, "dial")
          /\ UNCHANGED <<req, conn, packets>>
       \/ /\ pc' = "send"
          /\ req' = [req EXCEPT
                        !.RemoteAddr = IF opts.RemoteAddr = <<>> THEN LocalAddr ELSE @,
                        !.RemoteHost = IF opts.RemoteHost = <<>> THEN LocalAddr ELSE @]
          /\ packets' \in MainReplies
          /\ conn' = Stream(packets')
          /\ UNCHANGED <<exitCode, exitAt>>
    /\ UNCHANGED <<args, opts, wire, failedWrites, tooSlow, panicMsg, pos, res, err,
                   prefix, warnings, nread>>

\* lines 153-158
SendRequest ==
    /\ pc = "send"
    /\ \E failed \in SUBSET {1, 2, 3} :
          LET r == sendRequest(req, failed)
          IN  /\ wire' = wire \o r.written
              /\ failedWrites' = failed
              /\ IF r.err
                 THEN Exit(NagiosCritical, "send")
                 ELSE pc' = "readResponse" /\ UNCHANGED <<exitCode, exitAt>>
    /\ UNCHANGED <<opts, req, tooSlow, dialed, panicMsg>>
    /\ UnchangedDecode

\* lines 161-170
ReportReadError ==
    /\ pc = "returned"
    /\ err # "nil"
    /\ Exit(NagiosCritical, "read")
    /\ UNCHANGED <<opts, req, wire, failedWrites, tooSlow, dialed, panicMsg>>
    /\ UnchangedDecode

\* lines 172-241: whether the JSON value equals --json-value and whether the
\* response time exceeds --warn are the environment's
Evaluate ==
    /\ pc = "returned"
    /\ err = "nil"
    /\ \E jsonEqual \in BOOLEAN, exceeded \in BOOLEAN :
          /\ tooSlow' = exceeded
          /\ Exit(nagiosStatus(res.StatusCode, opts, jsonEqual, exceeded), "done")
    /\ UNCHANGED <<opts, req, wire, failedWrites, dialed, panicMsg>>
    /\ UnchangedDecode

Next ==
    \/ PrepareOptions
    \/ BuildRequest
    \/ Validate
    \/ Dial
    \/ SendRequest
    \/ ReadFrameError
    \/ ReadBodyChunk
    \/ ReadSendHeaders
    \/ ReadEndResponse
    \/ ReadGetBodyChunk
    \/ ReadOtherPacket
    \/ ReportReadError
    \/ Evaluate

Spec == Init /\ [][Next]_vars

\* ------------------------------------------------------------ sendRequest alone
\* sendRequest on the requests main builds, and on two requests with long
\* header values.

\* req as lines 90-112 of main build it from a command line
RequestOf(o) ==
    [newAJP13ForwardRequest(prepareOptions(o)) EXCEPT
        !.Headers = parseHeaders(prepareOptions(o).Headers, <<>>).list,
        !.Attributes = parseAttributes(prepareOptions(o).Attributes, <<>>).list]

\* the command lines with which main gets to sendRequest
SendOptions ==
    { o \in OptionSet :
        /\ ~o.Version
        /\ parseHeaders(prepareOptions(o).Headers, <<>>).st = "ok"
        /\ parseAttributes(prepareOptions(o).Attributes, <<>>).st = "ok"
        /\ ~validate(RequestOf(o)) }
    \cup
    { [DefaultOptions EXCEPT !.Headers = <<LongHeader>>],
      [DefaultOptions EXCEPT !.Headers = <<LongHeader, LongHeader>>] }

InitSend ==
    /\ \E o \in SendOptions : req = RequestOf(o)
    /\ pc = "send"
    /\ wire = <<>>
    /\ failedWrites = {}
    /\ dialed = TRUE
    /\ conn = <<>>
    /\ packets = <<>>
    /\ pos = 0
    /\ res = ZeroResponse
    /\ err = "nil"
    /\ prefix = -1
    /\ warnings = 0
    /\ panicMsg = ""
    /\ nread = 0
    /\ opts = NoOptions
    /\ args = NoOptions
    /\ tooSlow = FALSE
    /\ exitCode = -1
    /\ exitAt = ""

SpecSend == InitSend /\ [][SendRequest]_vars

\* ------------------------------------------------------------ strings on the wire
\* appendString followed by readString on the bytes it wrote: the string is
\* the Uri of a request and the bytes written are the bytes delivered.
StringBytes == {0, 65, 160, 255}

LongLengths == {255, 256, 65535}

Strings ==
    UNION { [1..k -> StringBytes] : k \in 0..MaxStringLen }
    \cup { [i \in 1..n |-> 97] : n \in LongLengths }

InitString ==
    /\ \E s \in Strings : req = [NoRequest EXCEPT !.Uri = s]
    /\ pc = "appendString"
    /\ wire = <<>>
    /\ conn = <<>>
    /\ pos = 0
    /\ res = ZeroResponse
    /\ err = "nil"
    /\ packets = <<>>
    /\ prefix = -1
    /\ warnings = 0
    /\ panicMsg = ""
    /\ nread = 0
    /\ opts = NoOptions
    /\ args = NoOptions
    /\ failedWrites = {}
    /\ tooSlow = FALSE
    /\ dialed = TRUE
    /\ exitCode = -1
    /\ exitAt = ""

AppendString ==
    /\ pc = "appendString"
    /\ wire' = wire \o appendString(req.Uri)
    /\ conn' = wire'
    /\ pc' = "readString"
    /\ UNCHANGED <<args, opts, req, failedWrites, tooSlow, dialed, exitCode, exitAt,
                   pos, res, err, prefix, warnings, panicMsg, packets, nread>>

ReadString ==
    /\ pc = "readString"
    /\ LET r == readString(conn, pos)
       IN  /\ res' = [res EXCEPT !.StatusMessage = r.val]
           /\ err' = (IF r.st = "ok" THEN "nil" ELSE r.st)
           /\ pos' = r.pos
    /\ pc' = "stringRead"
    /\ UNCHANGED <<args, opts, req, wire, failedWrites, tooSlow, dialed, exitCode,
                   exitAt, conn, prefix, warnings, panicMsg, packets, nread>>

NextString == AppendString \/ ReadString

SpecString == InitString /\ [][NextString]_vars

\* ------------------------------------------------------------ what the container sent
\* The stream offset at which packet k + 1 starts.
Offset(k) == Len(Stream(SubSeq(packets, 1, k)))

\* Packets whose frame declares exactly the bytes their fields take, or
\* that carry only their tag: the decoder is at a frame boundary after them.
Aligning(p) ==
    \/ p.kind \in {"chunk", "headers"}
    \/ p.kind = "other" /\ p.declared = 1

AlignedUpTo(k) == k <= Len(packets) /\ \A i \in 1..k : Aligning(packets[i])

RECURSIVE BodyOf(_)
BodyOf(ps) ==
    IF ps = <<>> THEN <<>>
    ELSE (IF Head(ps).kind = "chunk" THEN Head(ps).data ELSE <<>>) \o BodyOf(Tail(ps))

ExpectedHeader(h) ==
    [Name |-> IF h.code # <<>> THEN ResHeaderName(h.code) ELSE h.name,
     Value |-> h.value]

RECURSIVE HeadersOf(_)
HeadersOf(ps) ==
    IF ps = <<>> THEN <<>>
    ELSE (IF Head(ps).kind = "headers"
          THEN [i \in 1..Len(Head(ps).hdrs) |-> ExpectedHeader(Head(ps).hdrs[i])]
          ELSE <<>>) \o HeadersOf(Tail(ps))

\* ------------------------------------------------------------ claims

\* C1: readResponse returns a nil error only when the packet it processed
\* last was an end-response packet (tag 5): every return before that
\* carries an error, and once an end-response packet has been processed the
\* decode loop is never at its head again, so no further packet is read.
C1_NilOnlyAfterEndResponse ==
    /\ (pc = "returned" /\ err = "nil") => prefix = AJP13_END_RESPONSE
    /\ prefix = AJP13_END_RESPONSE => pc # "readResponse"

C1_Witness ==
    /\ pc = "returned" /\ err = "nil" /\ prefix = AJP13_END_RESPONSE
    /\ nread = 3
    /\ Len(packets) > nread
    /\ pos < Len(conn)

\* C2: the Body of a response returned without error is the concatenation,
\* in arrival order, of the contents of the body-chunk packets that were
\* processed, with nothing added, dropped or reordered.
C2_BodyIsConcatenation ==
    (pc = "returned" /\ err = "nil") =>
        res.Body = BodyOf(SubSeq(packets, 1, nread))

C2_Witness ==
    /\ pc = "returned" /\ err = "nil"
    /\ packets = <<ChunkHe, ChunkLlo, EndResponse>>
    /\ res.Body = <<72, 101, 108, 108, 111>>     \* "Hello"

\* C3: after a send-headers packet has been decoded the response holds the
\* packet's status code and status message, and one header entry per entry
\* of the packet, in wire order and with repeated names kept, appended to
\* those of earlier packets; a name that starts with 0xA0 is the table's
\* name for that code, any other the literal string.  The stream
\* send-headers(200, "OK", content-type: text/plain), body-chunk("OK"),
\* end-response decodes to exactly that.
C3_SendHeadersDecoded ==
    /\ (pc = "readResponse" /\ nread >= 1 /\ AlignedUpTo(nread)
            /\ packets[nread].kind = "headers") =>
        /\ res.StatusCode = packets[nread].status
        /\ res.StatusMessage = packets[nread].msg
        /\ res.Headers = HeadersOf(SubSeq(packets, 1, nread))
        /\ Len(res.Headers) =
              Len(HeadersOf(SubSeq(packets, 1, nread - 1))) + Len(packets[nread].hdrs)
    /\ (pc = "returned" /\ packets = <<Headers200, ChunkOK, EndResponse>>
            /\ conn = Stream(packets)) =>
        /\ err = "nil"
        /\ res = [StatusCode |-> 200,
                  StatusMessage |-> <<79, 75>>,
                  Headers |-> <<[Name |-> <<99, 111, 110, 116, 101, 110, 116, 45,
                                            116, 121, 112, 101>>,
                                 Value |-> <<116, 101, 120, 116, 47, 112, 108, 97,
                                             105, 110>>]>>,
                  Body |-> <<79, 75>>]

C3_Witness ==
    /\ pc = "readResponse" /\ nread = 2
    /\ packets[1] = Headers200 /\ packets[2] = Headers404
    /\ Len(res.Headers) = 5
    /\ res.Headers[2].Name = res.Headers[4].Name
    /\ res.StatusCode = 404

\* C4: a frame that does not start with 'A' 'B' makes readResponse return
\* the unknown-direction error, and the response returned with it carries
\* no status, headers or body of earlier packets.
C4_FramingErrorHasEmptyResponse ==
    /\ (pc = "returned" /\ err = "unknown direction") => res = ZeroResponse
    /\ (pc = "returned" /\ AlignedUpTo(nread) /\ nread < Len(packets)
            /\ packets[nread + 1].magic # <<65, 66>>
            /\ Len(conn) >= Offset(nread) + 2) => err = "unknown direction"

\* C5: a get-body-chunk packet (tag 6) always ends the decode with the
\* unsupported-packet-type failure, which is neither the framing error nor
\* an I/O error, whatever the packet declares and carries; the loop does
\* not go on.
C5_GetBodyChunkUnsupported ==
    prefix = AJP13_GET_BODY_CHUNK =>
        /\ pc = "panic"
        /\ panicMsg = "GET_BODY_CHUNK response is not yet supported"
        /\ err \notin {"io", "unknown direction"}

C5_Witness ==
    /\ prefix = AJP13_GET_BODY_CHUNK /\ pc = "panic"
    /\ nread = 2
    /\ packets[3].kind = "getbody" /\ packets[3].declared = 3

\* C6: after a packet whose tag is none of 3, 4, 5, 6 the decoder has
\* consumed the whole declared payload and extracted nothing, so that it
\* stands at the next frame and a following end-response packet is decoded
\* successfully.
C6_OtherPacketConsumed ==
    /\ (pc = "readResponse" /\ nread >= 1 /\ AlignedUpTo(nread - 1)
            /\ nread <= Len(packets) /\ packets[nread].kind = "other") =>
        /\ pos = Offset(nread)
        /\ res.Body = BodyOf(SubSeq(packets, 1, nread))
        /\ res.Headers = HeadersOf(SubSeq(packets, 1, nread))
    /\ (pc = "returned" /\ Len(packets) = 2 /\ packets[1].kind = "other"
            /\ packets[2] = EndResponse /\ conn = Stream(packets)) =>
        err = "nil"

\* C7: after a body-chunk packet whose frame declares more bytes than its
\* chunk, the body has grown by the chunk alone, the surplus has been read
\* and dropped, so that the decoder stands at the next frame, and no error
\* is reported when the connection delivered the whole packet.
C7_ChunkPaddingDiscarded ==
    /\ (pc = "readResponse" /\ nread >= 1 /\ AlignedUpTo(nread)
            /\ packets[nread].kind = "chunk" /\ packets[nread].pad > 0) =>
        /\ pos = Offset(nread)
        /\ res.Body = BodyOf(SubSeq(packets, 1, nread))
        /\ err = "nil"
    /\ (pc \in {"returned", "panic"} /\ AlignedUpTo(nread + 1)
            /\ packets[nread + 1].kind = "chunk" /\ packets[nread + 1].pad > 0) =>
        Len(conn) < Offset(nread + 1)

C7_Witness ==
    /\ pc = "readResponse" /\ nread = 2
    /\ packets[1] = ChunkOK /\ packets[2] = ChunkLlo
    /\ pos = Offset(2) /\ pos < Len(conn)
    /\ res.Body = <<79, 75, 108, 108, 111>>

\* C8: for an end-response packet that declares more than the tag and the
\* reuse flag, readResponse consumes the whole declared payload, prints
\* the warning once and returns the response with a nil error.
C8_EndResponseSurplusDrained ==
    /\ (pc = "returned" /\ err = "nil" /\ nread >= 1 /\ AlignedUpTo(nread - 1)
            /\ nread <= Len(packets) /\ packets[nread].kind = "end"
            /\ packets[nread].declared > 2) =>
        /\ pos = Offset(nread)
        /\ warnings = 1
    /\ (pc \in {"returned", "panic"} /\ AlignedUpTo(nread) /\ nread < Len(packets)
            /\ packets[nread + 1].kind = "end" /\ packets[nread + 1].declared > 2) =>
        Len(conn) < Offset(nread + 1)

\* ------------------------------------------------------------ what main wrote
\* The frame of the request is on the connection: magic, length, payload.
FrameWritten == Len(wire) > 4 /\ SubSeq(wire, 1, 2) = <<18, 52>>

MethodSupported ==
    ToUpper(opts.Method) \in { <<71, 69, 84>>, <<72, 69, 65, 68>> }   \* "GET", "HEAD"

\* The offset in the frame of the first header entry: the frame head, the
\* prefix and method codes, five strings, port, SSL flag and header count.
HeadersStart ==
    4 + 2 + (Len(req.Protocol) + 3) + (Len(req.Uri) + 3) + (Len(req.RemoteAddr) + 3)
      + (Len(req.RemoteHost) + 3) + (Len(req.ServerName) + 3) + 2 + 1 + 2

\* A header entry as a container reads it from the frame at offset p.
WireHeader(c, p) ==
    IF c[p + 1] = 160
    THEN [coded |-> TRUE, name |-> SubSeq(c, p + 1, p + 2),
          value |-> readString(c, p + 2).val, pos |-> readString(c, p + 2).pos]
    ELSE [coded |-> FALSE, name |-> readString(c, p).val,
          value |-> readString(c, readString(c, p).pos).val,
          pos |-> readString(c, readString(c, p).pos).pos]

RECURSIVE WireHeaders(_, _, _)
WireHeaders(c, p, n) ==
    IF n = 0 THEN <<>>
    ELSE LET h == WireHeader(c, p)
         IN  <<[coded |-> h.coded, name |-> h.name, value |-> h.value]>>
             \o WireHeaders(c, h.pos, n - 1)

\* C9: a request reaches the connection only for a method that is GET or
\* HEAD after upper-casing.  For any other method validation ends the
\* program with UNKNOWN before the connection is dialed and before a byte
\* is written; for "get" or "HeAd" validation passes, and the frame that is
\* written carries the prefix code 2 and the method code 2 or 3.
C9_OnlyGetAndHeadAreSent ==
    /\ exitAt = "validate" <=>
          (~MethodSupported /\ pc = "exit" /\ exitAt \notin {"version", "attribute"})
    /\ exitAt = "validate" =>
          ~dialed /\ wire = <<>> /\ exitCode = NagiosUnknown
    /\ (dialed \/ wire # <<>> \/ pc \in {"dial", "send", "readResponse", "returned"})
          => MethodSupported
    /\ pc \in {"readResponse", "returned"} => wire # <<>>
    /\ FrameWritten =>
          /\ wire[5] = 2
          /\ wire[6] = IF ToUpper(opts.Method) = <<71, 69, 84>> THEN 2 ELSE 3

C9_Witness ==
    /\ opts.Method = <<72, 101, 65, 100>>                   \* "HeAd"
    /\ req.Method = <<72, 69, 65, 68>>                      \* "HEAD"
    /\ pc = "readResponse"
    /\ FrameWritten
    /\ wire[6] = 3

\* C10: in the frame sendRequest writes, the entry of every header whose
\* lower-cased name is a key of SC_REQ_HEADER starts with that key's two
\* bytes 0xA0 xx, the entry of every other header with the lower-cased name
\* as a length-prefixed string, and in both cases the value follows as a
\* length-prefixed string.
C10_HeaderNamesCoded ==
    FrameWritten =>
        WireHeaders(wire, HeadersStart, Len(req.Headers)) =
            [i \in 1..Len(req.Headers) |->
                IF ToLower(req.Headers[i].Name) \in DOMAIN SC_REQ_HEADER
                THEN [coded |-> TRUE,
                      name  |-> SC_REQ_HEADER[ToLower(req.Headers[i].Name)],
                      value |-> req.Headers[i].Value]
                ELSE [coded |-> FALSE,
                      name  |-> ToLower(req.Headers[i].Name),
                      value |-> req.Headers[i].Value]]

C10_Witness ==
    /\ FrameWritten
    /\ Len(req.Headers) = 4
    /\ req.Headers[1].Name = <<67, 111, 110, 116, 101, 110, 116, 45, 84, 121, 112, 101>>  \* "Content-Type"
    /\ req.Headers[2].Name = <<88, 45, 70, 111, 111>>                                     \* "X-Foo"
    /\ req.Headers[3].Name = <<72, 111, 115, 116>>                                        \* "Host"
    /\ SubSeq(wire, HeadersStart + 1, HeadersStart + 2) = <<160, 7>>
    /\ WireHeaders(wire, HeadersStart, 4)[2] =
          [coded |-> FALSE, name |-> <<120, 45, 102, 111, 111>>, value |-> <<98>>]
    /\ WireHeaders(wire, HeadersStart, 4)[3] =
          [coded |-> TRUE, name |-> <<160, 11>>, value |-> <<104>>]

\* The offset in a frame just behind n header entries that start at offset p.
RECURSIVE WireHeadersEnd(_, _, _)
WireHeadersEnd(c, p, n) ==
    IF n = 0 THEN p ELSE WireHeadersEnd(c, WireHeader(c, p).pos, n - 1)

\* The attribute entries a container reads from the frame at offset p: a code
\* byte and a value string each, up to the first code byte 0xFF.  terminated
\* tells whether that byte was found, pos is the offset behind it.
RECURSIVE WireAttributes(_, _)
WireAttributes(c, p) ==
    IF p >= Len(c) THEN [attrs |-> <<>>, terminated |-> FALSE, pos |-> p]
    ELSE IF c[p + 1] = 255 THEN [attrs |-> <<>>, terminated |-> TRUE, pos |-> p + 1]
    ELSE LET v == readString(c, p + 1)
         IN  IF v.st # "ok" THEN [attrs |-> <<>>, terminated |-> FALSE, pos |-> p]
             ELSE LET rest == WireAttributes(c, v.pos)
                  IN  [rest EXCEPT !.attrs = <<[Code |-> <<c[p + 1]>>, Value |-> v.val]>> \o @]

\* The fixed fields of the payload as a container reads them in the order of
\* the protocol, starting behind the four bytes of the frame head.
WireFields ==
    LET protocol   == readString(wire, 6)
        uri        == readString(wire, protocol.pos)
        remoteAddr == readString(wire, uri.pos)
        remoteHost == readString(wire, remoteAddr.pos)
        serverName == readString(wire, remoteHost.pos)
        p          == serverName.pos
    IN  [PrefixCode |-> wire[5], Method |-> wire[6],
         Protocol |-> protocol.val, Uri |-> uri.val,
         RemoteAddr |-> remoteAddr.val, RemoteHost |-> remoteHost.val,
         ServerName |-> serverName.val,
         ServerPort |-> wire[p + 1] * 256 + wire[p + 2],
         IsSsl |-> wire[p + 3],
         headerCount |-> wire[p + 4] * 256 + wire[p + 5],
         headersStart |-> p + 5]

\* C11: the payload of the frame sendRequest writes reads back, field by
\* field in the order of the protocol, as prefix code 2, the method code,
\* protocol, URI, remote address, remote host, server name, server port, SSL
\* flag and header count; the count is the number of header entries that
\* follow; behind the headers come the attributes, each a code byte and a
\* value string; and the first 0xFF in the place of an attribute code is the
\* last byte of the payload.
C11_PayloadFieldOrder ==
    FrameWritten =>
        LET f     == WireFields
            attrs == WireAttributes(wire, WireHeadersEnd(wire, f.headersStart, f.headerCount))
        IN  /\ f.PrefixCode = 2
            /\ f.Method = (IF req.Method = <<71, 69, 84>> THEN 2 ELSE 3)
            /\ f.Protocol = req.Protocol
            /\ f.Uri = req.Uri
            /\ f.RemoteAddr = req.RemoteAddr
            /\ f.RemoteHost = req.RemoteHost
            /\ f.ServerName = req.ServerName
            /\ f.ServerPort = req.ServerPort
            /\ f.IsSsl = (IF req.IsSsl THEN 1 ELSE 0)
            /\ f.headerCount = Len(req.Headers)
            /\ f.headersStart = HeadersStart
            /\ attrs.attrs = [i \in 1..Len(req.Attributes) |->
                                [Code |-> req.Attributes[i].Code,
                                 Value |-> req.Attributes[i].Value]]
            /\ attrs.terminated
            /\ attrs.pos = Len(wire)
            /\ wire[Len(wire)] = 255

C11_Witness ==
    /\ FrameWritten
    /\ Len(req.Headers) = 4
    /\ Len(req.Attributes) = 2
    /\ req.Attributes[1] = [Code |-> <<6>>, Value |-> <<119, 49>>]        \* route=w1
    /\ req.Attributes[2] = [Code |-> <<5>>, Value |-> <<113, 61, 49>>]    \* query_string q=1
    /\ WireFields.headerCount = 4
    /\ WireAttributes(wire, WireHeadersEnd(wire, HeadersStart, 4)).terminated
    /\ wire[Len(wire)] = 255

\* C12: for every string s that fits a 16-bit length, the empty one included,
\* readString applied to the bytes appendString(s) wrote returns s without
\* error and has consumed Len(s) + 3 bytes, which are all the bytes written:
\* the two bytes of the big-endian length, the content and one zero byte.
C12_StringRoundTrip ==
    pc = "stringRead" =>
        /\ Len(req.Uri) < 65536
        /\ err = "nil"
        /\ res.StatusMessage = req.Uri
        /\ pos = Len(req.Uri) + 3
        /\ pos = Len(conn)
        /\ conn = <<Len(req.Uri) \div 256, Len(req.Uri) % 256>> \o req.Uri \o <<0>>

C12_Witness ==
    /\ pc = "stringRead"
    /\ req.Uri = <<>>
    /\ conn = <<0, 0, 0>>
    /\ res.StatusMessage = <<>>
    /\ pos = 3

\* C13: when one of the three writes of sendRequest (the magic bytes, the
\* length, the payload) has failed, sendRequest has returned a non-nil error:
\* main has ended at its send step and never goes on to read a response.
C13_FailedWriteIsReported ==
    failedWrites # {} => (pc = "exit" /\ exitAt = "send")

\* The command line names an attribute that is not in SC_REQ_ATTR.
AttributeName(s) == IF Index(s, 61) = 0 THEN s ELSE SubSeq(s, 1, Index(s, 61) - 1)

UnknownAttribute(s) == ToLower(AttributeName(s)) \notin DOMAIN SC_REQ_ATTR

HasUnknownAttribute ==
    \E i \in 1..Len(args.Attributes) : UnknownAttribute(args.Attributes[i])

\* Nothing on the command line ends the program before the first unknown
\* attribute is looked at: no --version, every header has its colon and
\* every attribute in front of the unknown one has its "=".
ReachesUnknownAttribute ==
    /\ ~args.Version
    /\ \A i \in 1..Len(args.Headers) : Index(args.Headers[i], 58) # 0
    /\ \E i \in 1..Len(args.Attributes) :
          /\ UnknownAttribute(args.Attributes[i])
          /\ \A j \in 1..(i - 1) : Index(args.Attributes[j], 61) # 0

\* C14: when the command line names an attribute that is not, after
\* lower-casing, a key of SC_REQ_ATTR, no connection is ever dialed and no
\* byte is ever written, and a program that ends with a status ends with
\* UNKNOWN; it ends so at the attribute loop whenever that loop gets to the
\* unknown attribute.  The program ends at the attribute loop for no other
\* reason, and every attribute code in a written frame is a code of the
\* table.
C14_UnknownAttributeRejected ==
    /\ HasUnknownAttribute =>
          /\ ~dialed
          /\ wire = <<>>
          /\ pc \in {"main", "build", "exit", "panic"}
          /\ pc = "exit" => (exitCode = NagiosUnknown /\ exitAt \in {"version", "attribute"})
    /\ (ReachesUnknownAttribute /\ pc \notin {"main", "build"}) =>
          (pc = "exit" /\ exitAt = "attribute" /\ exitCode = NagiosUnknown)
    /\ exitAt = "attribute" => ReachesUnknownAttribute
    /\ FrameWritten =>
          LET attrs == WireAttributes(wire, WireHeadersEnd(wire, HeadersStart, Len(req.Headers))).attrs
          IN  \A i \in 1..Len(attrs) :
                 \E k \in DOMAIN SC_REQ_ATTR : SC_REQ_ATTR[k] = attrs[i].Code

C14_Witness ==
    /\ Len(args.Attributes) = 2
    /\ ~UnknownAttribute(args.Attributes[1])
    /\ args.Attributes[2] = <<106, 118, 109, 82, 111, 117, 116, 101, 61, 120>>   \* "jvmRoute=x"
    /\ pc = "exit"
    /\ exitAt = "attribute"
    /\ exitCode = NagiosUnknown
    /\ ~dialed
    /\ wire = <<>>

\* C15: every frame sendRequest writes is the bytes 0x12 0x34, a 2-byte
\* big-endian length and the payload, and the length is the number of
\* payload bytes behind it, whatever the size of the payload.
C15_LengthFieldIsPayloadLength ==
    FrameWritten =>
        /\ SubSeq(wire, 5, Len(wire)) = requestPayload(req)
        /\ wire[3] * 256 + wire[4] = Len(wire) - 4

\* C16: the frame main writes carries a User-Agent header (coded 0xA0 0x0E),
\* and its value is the value given with --useragent when one was given,
\* and the default "check_ajp (0.1.0)" when none was.
C16_UserAgentSent ==
    FrameWritten =>
        LET hs == WireHeaders(wire, HeadersStart, Len(req.Headers))
        IN  /\ \E i \in 1..Len(hs) : hs[i].name = <<160, 14>>
            /\ \A i \in 1..Len(hs) :
                  (hs[i].coded /\ hs[i].name = <<160, 14>>) =>
                      hs[i].value = (IF args.UserAgent # <<>> THEN args.UserAgent
                                     ELSE DefaultUserAgent)

\* C17: readResponse never asks readByte for a negative number of bytes, in
\* a body chunk whose length exceeds what the frame declares or in an
\* end-response frame that declares one byte: the decode ends by returning
\* a response or an error, and the only other way it ends is the failure on
\* a get-body-chunk packet.
C17_NoNegativeReadSize ==
    /\ panicMsg # "makeslice: len out of range"
    /\ pc = "panic" => prefix = AJP13_GET_BODY_CHUNK

\* C18: once readResponse has processed a send-headers packet that follows
\* packets consumed in full, it has consumed the frame head and the whole
\* declared payload of that packet and stands at the next frame, also when
\* the packet declares more bytes than its status, message and header
\* entries take.
C18_SendHeadersConsumesDeclared ==
    (pc = "readResponse" /\ nread >= 1 /\ nread <= Len(packets)
        /\ AlignedUpTo(nread - 1)
        /\ packets[nread].kind \in {"headers", "longheaders"}
        /\ Len(conn) >= Offset(nread)) =>
            pos = Offset(nread)

\* C19: the decode loop of readResponse terminates on every reply stream.
\* It never stands behind the end of the stream, and every iteration either
\* ends the call by returning, a response after an end-response packet or
\* an error (the failure on a get-body-chunk packet counted as one), or has
\* consumed at least the 5 bytes of magic, length and tag when the loop goes
\* on; so the loop returns after at most Len(conn) \div 5 packets, whatever
\* their number.
C19_DecodeTerminates ==
    /\ [](pos <= Len(conn))
    /\ [][pc = "readResponse" =>
            \/ pc' = "returned"
            \/ pc' = "panic" /\ prefix' = AJP13_GET_BODY_CHUNK
            \/ pc' = "readResponse" /\ pos' >= pos + 5]_vars

\* The entries of a comma-separated list: its stretches from the start or
\* behind a comma up to a comma or the end, that hold no comma themselves.
ExpectEntries(e) ==
    { entry \in { SubSeq(e, i, j - 1) :
                    i \in { m \in 1..(Len(e) + 1) : m = 1 \/ e[m - 1] = 44 },
                    j \in { n \in 1..(Len(e) + 1) : n = Len(e) + 1 \/ e[n] = 44 } } :
        \A k \in 1..Len(entry) : entry[k] # 44 }

JsonCheckRequested == args.JsonKey # <<>> /\ args.JsonValue # <<>>

\* C20: when main has decoded a response and ends at its last line, no JSON
\* check was requested and the response time did not exceed the warning
\* threshold, the exit status follows from the status code: without
\* --expect it is CRITICAL from 500 on, WARNING from 400 to 499 and OK
\* below; with --expect it is OK when the decimal status code is one of the
\* comma-separated entries and WARNING otherwise, also from 500 on.
C20_ExitStatusFromStatusCode ==
    (pc = "exit" /\ exitAt = "done" /\ ~JsonCheckRequested /\ ~tooSlow) =>
        exitCode =
            IF args.Expect = <<>>
            THEN (IF res.StatusCode >= 500 THEN NagiosCritical
                  ELSE IF res.StatusCode >= 400 THEN NagiosWarning
                  ELSE NagiosOk)
            ELSE (IF Itoa(res.StatusCode) \in ExpectEntries(args.Expect)
                  THEN NagiosOk
                  ELSE NagiosWarning)

C20_Witness ==
    /\ pc = "exit"
    /\ exitAt = "done"
    /\ args.Expect = <<52, 48, 52>>          \* "404"
    /\ res.StatusCode = 503
    /\ ~tooSlow
    /\ exitCode = NagiosWarning

\* The HTTP header name each constant SC_RES_... denotes, by its code.
DenotedHeaderName ==
    (<<160, 1>> :> <<99, 111, 110, 116, 101, 110, 116, 45, 116, 121, 112, 101>>) \* "content-type"
 @@ (<<160, 2>> :> <<99, 111, 110, 116, 101, 110, 116, 45, 108, 97, 110, 103, 117, 97, 103, 101>>) \* "content-language"
 @@ (<<160, 3>> :> <<99, 111, 110, 116, 101, 110, 116, 45, 108, 101, 110, 103, 116, 104>>) \* "content-length"
 @@ (<<160, 4>> :> <<100, 97, 116, 101>>) \* "date"
 @@ (<<160, 5>> :> <<108, 97, 115, 116, 45, 109, 111, 100, 105, 102, 105, 101, 100>>) \* "last-modified"
 @@ (<<160, 6>> :> <<108, 111, 99, 97, 116, 105, 111, 110>>) \* "location"
 @@ (<<160, 7>> :> <<115, 101, 116, 45, 99, 111, 111, 107, 105, 101>>) \* "set-cookie"
 @@ (<<160, 8>> :> <<115, 101, 116, 45, 99, 111, 111, 107, 105, 101, 50>>) \* "set-cookie2"
 @@ (<<160, 9>> :> <<115, 101, 114, 118, 108, 101, 116, 45, 101, 110, 103, 105, 110, 101>>) \* "servlet-engine"
 @@ (<<160, 10>> :> <<115, 116, 97, 116, 117, 115>>) \* "status"
 @@ (<<160, 11>> :> <<119, 119, 119, 45, 97, 117, 116, 104, 101, 110, 116, 105, 99, 97, 116, 101>>) \* "www-authenticate"

\* C21: every code of SC_RES_HEADER resolves to the header name its
\* constant denotes, and a decoded response answers for it: after a
\* send-headers packet has been decoded, each of its entries with a code of
\* the table is in the response under the denoted name, and header() asked
\* for that name returns the entry's value; so the entry 0xA0 0x04 is found
\* with header("Date").
C21_HeaderCodesResolve ==
    /\ DOMAIN SC_RES_HEADER = DOMAIN DenotedHeaderName
    /\ (pc = "readResponse" /\ nread >= 1 /\ AlignedUpTo(nread)
            /\ packets[nread].kind = "headers") =>
        \A i \in 1..Len(packets[nread].hdrs) :
            LET h == packets[nread].hdrs[i]
            IN  h.code \in DOMAIN DenotedHeaderName =>
                  /\ \E k \in 1..Len(res.Headers) :
                        res.Headers[k] = [Name |-> DenotedHeaderName[h.code],
                                          Value |-> h.value]
                  /\ \E k \in 1..Len(header(res, ToUpper(DenotedHeaderName[h.code]))) :
                        header(res, ToUpper(DenotedHeaderName[h.code]))[k] = h.value

====
